---- MODULE Spec2Model ----
(***************************************************************************)
(* Model of the CLI/script generator (scripts/generate_cli_script.py).     *)
(*                                                                         *)
(* Python strings are sequences of one-character strings, so that          *)
(* splitting, stripping, normalisation (snake) and numeric parsing are     *)
(* computed the way the code computes them.                                *)
(***************************************************************************)
EXTENDS Integers, Sequences, FiniteSets, TLC

\* ------------------------------------------------------------------------
\* Characters and elementary string functions
\* ------------------------------------------------------------------------

UpperSeq ==
  <<"A","B","C","D","E","F","G","H","I","J","K","L","M",
    "N","O","P","Q","R","S","T","U","V","W","X","Y","Z">>

LowerSeq ==
  <<"a","b","c","d","e","f","g","h","i","j","k","l","m",
    "n","o","p","q","r","s","t","u","v","w","x","y","z">>

DigitSeq ==
  <<"0","1","2","3","4","5","6","7","8","9">>

Range(f) ==
  { f[i] : i \in DOMAIN f }

Upper ==
  Range(UpperSeq)

Lower ==
  Range(LowerSeq)

Digit ==
  Range(DigitSeq)

\* \s of the regular expressions and of str.strip()
Space ==
  {" "}

\* \w of the regular expressions
Word ==
  Upper \cup Lower \cup Digit \cup {"_"}

\* str.lower() on one character
LowerChar(c) ==
  IF c \in Upper
    THEN LowerSeq[CHOOSE i \in DOMAIN UpperSeq : UpperSeq[i] = c]
    ELSE c

\* str.lower()
ToLower(s) ==
  [ i \in DOMAIN s |-> LowerChar(s[i]) ]

DigitVal(c) ==
  (CHOOSE i \in DOMAIN DigitSeq : DigitSeq[i] = c) - 1

RECURSIVE LStrip(_, _)
LStrip(s, cs) ==
  IF s # << >> /\ Head(s) \in cs THEN LStrip(Tail(s), cs) ELSE s

RECURSIVE RStrip(_, _)
RStrip(s, cs) ==
  IF s # << >> /\ s[Len(s)] \in cs
    THEN RStrip(SubSeq(s, 1, Len(s) - 1), cs)
    ELSE s

\* str.strip(chars); str.strip() is StripChars(s, Space)
StripChars(s, cs) ==
  RStrip(LStrip(s, cs), cs)

\* re.sub(r"[^\w\s-]", "", s)
RECURSIVE RemoveNonWord(_)
RemoveNonWord(s) ==
  IF s = << >> THEN << >>
  ELSE IF Head(s) \in Word \cup Space \cup {"-"}
    THEN <<Head(s)>> \o RemoveNonWord(Tail(s))
    ELSE RemoveNonWord(Tail(s))

\* re.sub(r"[-\s]+", "_", s): every maximal run becomes one underscore
RECURSIVE CollapseSeparators(_)
CollapseSeparators(s) ==
  IF s = << >> THEN << >>
  ELSE IF Head(s) \in Space \cup {"-"}
    THEN <<"_">> \o CollapseSeparators(LStrip(s, Space \cup {"-"}))
    ELSE <<Head(s)>> \o CollapseSeparators(Tail(s))

snake(s) ==
  ToLower(StripChars(CollapseSeparators(RemoveNonWord(s)), {"_"}))

valid_identifier(s) ==
  /\ s # << >>
  /\ s[1] \in Upper \cup Lower \cup {"_"}
  /\ \A i \in DOMAIN s : s[i] \in Word

\* str.split(sep): the fields between the separators, empty fields kept
RECURSIVE Split(_, _)
Split(s, sep) ==
  IF \A i \in DOMAIN s : s[i] # sep
    THEN <<s>>
    ELSE LET k == CHOOSE i \in DOMAIN s :
                    s[i] = sep /\ \A j \in 1..(i - 1) : s[j] # sep
         IN <<SubSeq(s, 1, k - 1)>> \o Split(SubSeq(s, k + 1, Len(s)), sep)

\* ------------------------------------------------------------------------
\* Parameter grammar parser
\* ------------------------------------------------------------------------

STR ==
  <<"s","t","r">>

INT ==
  <<"i","n","t">>

FLOAT ==
  <<"f","l","o","a","t">>

BOOL ==
  <<"b","o","o","l">>

SUPPORTED_TYPES ==
  {STR, INT, FLOAT, BOOL}

\* Optional[str]: None, or a string
None ==
  [some |-> FALSE, s |-> << >>]

Some(s) ==
  [some |-> TRUE, s |-> s]

ParamSpec(name, typ, required, default) ==
  [name |-> name, type |-> typ, required |-> required, default |-> default]

\* Outcome of a call: a returned value, or a raised exception
Return(v) ==
  [ok |-> TRUE, val |-> v, exc |-> "none"]

Raise(e) ==
  [ok |-> FALSE, val |-> << >>, exc |-> e]

\* parse_param_token with an unsupported type read as str instead of rejected
parse_param_token_coerced(token) ==
  LET parts == Split(token, ":")
  IN IF Len(parts) < 2 \/ Len(parts) > 3
       THEN Raise("ValueError")
       ELSE LET name == StripChars(parts[1], Space)
                typ == StripChars(parts[2], Space)
                default == IF Len(parts) = 3
                             THEN Some(StripChars(parts[3], Space))
                             ELSE None
            IN IF name = << >> \/ ~valid_identifier(snake(name))
                 THEN Raise("ValueError")
                 ELSE Return(ParamSpec(snake(name),
                                       IF typ \in SUPPORTED_TYPES THEN typ
                                       ELSE STR,
                                       ~default.some, default))

\* parse_param_token with every parameter required
parse_param_token_required(token) ==
  LET parts == Split(token, ":")
  IN IF Len(parts) < 2 \/ Len(parts) > 3
       THEN Raise("ValueError")
       ELSE LET name == StripChars(parts[1], Space)
                typ == StripChars(parts[2], Space)
                default == IF Len(parts) = 3
                             THEN Some(StripChars(parts[3], Space))
                             ELSE None
            IN IF name = << >> \/ ~valid_identifier(snake(name))
                 THEN Raise("ValueError")
                 ELSE IF typ \notin SUPPORTED_TYPES
                   THEN Raise("ValueError")
                   ELSE Return(ParamSpec(snake(name), typ, TRUE, default))

\* parse_param_token without the check of the normalized name
parse_param_token_any_name(token) ==
  LET parts == Split(token, ":")
  IN IF Len(parts) < 2 \/ Len(parts) > 3
       THEN Raise("ValueError")
       ELSE LET name == StripChars(parts[1], Space)
                typ == StripChars(parts[2], Space)
                default == IF Len(parts) = 3
                             THEN Some(StripChars(parts[3], Space))
                             ELSE None
            IN IF typ \notin SUPPORTED_TYPES
                 THEN Raise("ValueError")
                 ELSE Return(ParamSpec(snake(name), typ, ~default.some, default))

parse_param_token(token) ==
  LET parts == Split(token, ":")
  IN IF Len(parts) < 2 \/ Len(parts) > 3
       THEN Raise("ValueError")
       ELSE LET name == StripChars(parts[1], Space)
                typ == StripChars(parts[2], Space)
                default == IF Len(parts) = 3
                             THEN Some(StripChars(parts[3], Space))
                             ELSE None
            IN IF name = << >> \/ ~valid_identifier(snake(name))
                 THEN Raise("ValueError")
                 ELSE IF typ \notin SUPPORTED_TYPES
                   THEN Raise("ValueError")
                   ELSE Return(ParamSpec(snake(name), typ, ~default.some, default))

\* parse_params_loop without the check of the names seen so far
RECURSIVE parse_params_loop_unchecked(_, _)
parse_params_loop_unchecked(tokens, n) ==
  IF n = 0 THEN Return(<< >>)
  ELSE LET before == parse_params_loop_unchecked(tokens, n - 1)
       IN IF ~before.ok THEN before
          ELSE LET r == parse_param_token(tokens[n])
               IN IF ~r.ok THEN r
                  ELSE Return(Append(before.val, r.val))

\* The loop of parse_params after the first n tokens: the accumulated specs,
\* or the exception of the first token that fails
RECURSIVE parse_params_loop(_, _)
parse_params_loop(tokens, n) ==
  IF n = 0 THEN Return(<< >>)
  ELSE LET before == parse_params_loop(tokens, n - 1)
       IN IF ~before.ok THEN before
          ELSE LET r == parse_param_token(tokens[n])
               IN IF ~r.ok THEN r
                  ELSE IF \E i \in DOMAIN before.val :
                            before.val[i].name = r.val.name
                    THEN Raise("ValueError")
                    ELSE Return(Append(before.val, r.val))

\* parse_params with a loop that does not look at the names seen so far
parse_params_unchecked(tokens) ==
  parse_params_loop_unchecked(tokens, Len(tokens))

\* parse_params that returns the specs last token first
parse_params_reversed(tokens) ==
  LET r == parse_params_loop(tokens, Len(tokens))
  IN IF ~r.ok THEN r
     ELSE Return([i \in 1..Len(r.val) |-> r.val[Len(r.val) + 1 - i]])

parse_params(tokens) ==
  parse_params_loop(tokens, Len(tokens))

\* ------------------------------------------------------------------------
\* Type coercion engine
\* ------------------------------------------------------------------------

click_type(typ) ==
  IF typ = STR THEN STR
  ELSE IF typ = INT THEN INT
  ELSE IF typ = FLOAT THEN FLOAT
  ELSE IF typ = BOOL THEN BOOL
  ELSE STR

IsDigitChar(c) ==
  c \in Digit

\* A digit group as int() and float() accept it: digits, with single
\* underscores allowed between digits only
DigitGroup(s) ==
  /\ s # << >>
  /\ \A i \in DOMAIN s : s[i] \in Digit \cup {"_"}
  /\ s[1] \in Digit
  /\ s[Len(s)] \in Digit
  /\ \A i \in 1..(Len(s) - 1) : ~(s[i] = "_" /\ s[i + 1] = "_")

DigitsOf(s) ==
  SelectSeq(s, IsDigitChar)

Signed(s) ==
  s # << >> /\ s[1] \in {"+", "-"}

Negative(s) ==
  s # << >> /\ s[1] = "-"

Unsigned(s) ==
  IF Signed(s) THEN Tail(s) ELSE s

RECURSIVE CharsToNat(_)
CharsToNat(ds) ==
  IF ds = << >> THEN 0
  ELSE 10 * CharsToNat(SubSeq(ds, 1, Len(ds) - 1)) + DigitVal(ds[Len(ds)])

RECURSIVE NatToChars(_)
NatToChars(n) ==
  IF n < 10 THEN <<DigitSeq[n + 1]>>
  ELSE NatToChars(n \div 10) \o <<DigitSeq[(n % 10) + 1]>>

Zeros(n) ==
  [ i \in 1..n |-> "0" ]

\* str(int(val)): the canonical decimal text, or ValueError
IntText(val) ==
  LET s == StripChars(val, Space)
      body == Unsigned(s)
  IN IF ~DigitGroup(body) THEN Raise("ValueError")
     ELSE LET nz == LStrip(DigitsOf(body), {"0"})
          IN IF nz = << >> THEN Return(<<"0">>)
             ELSE Return((IF Negative(s) THEN <<"-">> ELSE << >>) \o nz)

\* repr of the float with significant digits ds (no leading zero, no
\* trailing zero, not empty) and the decimal point after position point
FloatRepr(ds, point) ==
  IF point - 1 < -4 \/ point - 1 >= 16
    THEN <<ds[1]>>
         \o (IF Len(ds) > 1 THEN <<".">> \o Tail(ds) ELSE << >>)
         \o <<"e">>
         \o (IF point - 1 < 0 THEN <<"-">> ELSE <<"+">>)
         \o (LET e == IF point - 1 < 0 THEN 1 - point ELSE point - 1
             IN IF e < 10 THEN <<"0">> \o NatToChars(e) ELSE NatToChars(e))
  ELSE IF point <= 0
    THEN <<"0", ".">> \o Zeros(0 - point) \o ds
  ELSE IF point >= Len(ds)
    THEN ds \o Zeros(point - Len(ds)) \o <<".", "0">>
  ELSE SubSeq(ds, 1, point) \o <<".">> \o SubSeq(ds, point + 1, Len(ds))

\* str(float(val)): the shortest text that reads back as the same float, or
\* ValueError.  Exact for inputs of at most 15 significant digits whose
\* value is in the range of a double.
FloatText(val) ==
  LET s == StripChars(val, Space)
      sign == IF Negative(s) THEN <<"-">> ELSE << >>
      body == ToLower(Unsigned(s))
      me == Split(body, "e")
      mant == Split(me[1], ".")
      ipart == mant[1]
      fpart == IF Len(mant) = 2 THEN mant[2] ELSE << >>
      epart == IF Len(me) = 2 THEN me[2] ELSE << >>
      mantOK ==
        /\ Len(mant) <= 2
        /\ ipart # << >> \/ fpart # << >>
        /\ ipart = << >> \/ DigitGroup(ipart)
        /\ fpart = << >> \/ DigitGroup(fpart)
      expOK ==
        \/ Len(me) = 1
        \/ Len(me) = 2 /\ DigitGroup(Unsigned(epart))
      exp == IF Len(me) = 2
               THEN (IF Negative(epart) THEN -1 ELSE 1)
                    * CharsToNat(DigitsOf(Unsigned(epart)))
               ELSE 0
      idig == DigitsOf(ipart)
      all == idig \o DigitsOf(fpart)
      lead == LStrip(all, {"0"})
      ds == RStrip(lead, {"0"})
      point == Len(idig) + exp - (Len(all) - Len(lead))
  IN IF body \in {<<"i","n","f">>, <<"i","n","f","i","n","i","t","y">>}
       THEN Return(sign \o <<"i","n","f">>)
     ELSE IF body = <<"n","a","n">>
       THEN Return(<<"n","a","n">>)
     ELSE IF ~(mantOK /\ expOK) THEN Raise("ValueError")
     ELSE IF ds = << >> THEN Return(sign \o <<"0", ".", "0">>)
     ELSE Return(sign \o FloatRepr(ds, point))

\* repr(val) of a str: single quotes unless the text has a single quote and
\* no double quote (texts with a backslash or a control character excluded)
Repr(val) ==
  LET hasSingle == \E i \in DOMAIN val : val[i] = "'"
      hasDouble == \E i \in DOMAIN val : val[i] = "\""
      q == IF hasSingle /\ ~hasDouble THEN "\"" ELSE "'"
      RECURSIVE Esc(_)
      Esc(t) == IF t = << >> THEN << >>
                ELSE (IF Head(t) = q THEN <<"\\", q>> ELSE <<Head(t)>>)
                     \o Esc(Tail(t))
  IN <<q>> \o Esc(val) \o <<q>>

TrueText ==
  <<"T","r","u","e">>

FalseText ==
  <<"F","a","l","s","e">>

NoneText ==
  <<"N","o","n","e">>

TruthyTokens ==
  { <<"1">>, <<"t","r","u","e">>, <<"y","e","s">>, <<"y">>, <<"o","n">> }

FalsyTokens ==
  { <<"0">>, <<"f","a","l","s","e">>, <<"n","o">>, <<"n">>, <<"o","f","f">> }

python_cast_value(typ, val) ==
  IF typ = STR THEN Return(Repr(val))
  ELSE IF typ = INT THEN IntText(val)
  ELSE IF typ = FLOAT THEN FloatText(val)
  ELSE IF typ = BOOL
    THEN IF ToLower(val) \in TruthyTokens THEN Return(TrueText)
         ELSE IF ToLower(val) \in FalsyTokens THEN Return(FalseText)
         ELSE Raise("ValueError")
  ELSE Return(Repr(val))

\* ------------------------------------------------------------------------
\* Surface renderers.  A rendered text is the record of its variable parts:
\* the @click.option declarations in text order, the arguments of the command
\* function, the query-parameter mapping and the optional simulate branch.
\* ------------------------------------------------------------------------

NoText ==
  << >>

\* One @click.option(...) declaration: flag and destination name, and the
\* source text of each keyword argument (NoText when it is not written)
OptionDecl(flag, dest, is_flag, type, required, default, show_default, help) ==
  [flag |-> flag, dest |-> dest, is_flag |-> is_flag, type |-> type,
   required |-> required, default |-> default,
   show_default |-> show_default, help |-> help]

\* p.default or "false"
DefaultOrFalse(p) ==
  IF p.default.some /\ p.default.s # << >>
    THEN p.default.s
    ELSE <<"f","a","l","s","e">>

\* str.capitalize()
Capitalize(s) ==
  [ i \in DOMAIN s |->
      IF i = 1
        THEN (IF s[i] \in Lower
                THEN UpperSeq[CHOOSE k \in DOMAIN LowerSeq : LowerSeq[k] = s[i]]
                ELSE s[i])
        ELSE LowerChar(s[i]) ]

\* The option declaration of one parameter in the subcommand surface
cli_option(p) ==
  IF p.type = BOOL
    THEN LET default_expr == IF p.required THEN Return(FalseText)
                             ELSE python_cast_value(BOOL, DefaultOrFalse(p))
         IN IF ~default_expr.ok THEN default_expr
            ELSE Return(OptionDecl(<<"-","-">> \o p.name, NoText, TRUE, NoText,
                                   NoText, default_expr.val, TrueText,
                                   "Boolean flag parameter: "))
    ELSE LET click_typ == click_type(p.type)
         IN IF p.required
              THEN Return(OptionDecl(<<"-","-">> \o p.name, NoText, FALSE,
                                     click_typ, TrueText, NoText, NoText,
                                     "Required parameter: "))
              ELSE LET default_expr == IF p.default.some
                                         THEN python_cast_value(p.type, p.default.s)
                                         ELSE Return(NoneText)
                       show_default == IF p.default.some
                                         THEN TrueText ELSE FalseText
                   IN IF ~default_expr.ok THEN default_expr
                      ELSE Return(OptionDecl(<<"-","-">> \o p.name, NoText,
                                             FALSE, click_typ, NoText,
                                             default_expr.val, show_default,
                                             "Optional parameter: "))

\* The type expression the script surface writes for a non-bool parameter
script_click_typ(typ) ==
  IF typ \in {INT, FLOAT}
    THEN <<"c","l","i","c","k",".">> \o Capitalize(click_type(typ))
    ELSE click_type(typ)

\* The option declaration of one parameter in the script surface
script_option(p) ==
  IF p.type = BOOL
    THEN LET default_expr == IF p.required THEN Return(FalseText)
                             ELSE python_cast_value(BOOL, DefaultOrFalse(p))
         IN IF ~default_expr.ok THEN default_expr
            ELSE Return(OptionDecl(<<"-","-">> \o p.name, NoText, TRUE, NoText,
                                   NoText, default_expr.val, TrueText,
                                   "Boolean flag parameter: "))
    ELSE LET click_typ == script_click_typ(p.type)
         IN IF p.required
              THEN Return(OptionDecl(<<"-","-">> \o p.name, NoText, FALSE,
                                     click_typ, TrueText, NoText, NoText,
                                     "Required parameter: "))
              ELSE LET default_expr == IF p.default.some
                                         THEN python_cast_value(p.type, p.default.s)
                                         ELSE Return(NoneText)
                       show_default == IF p.default.some
                                         THEN TrueText ELSE FalseText
                   IN IF ~default_expr.ok THEN default_expr
                      ELSE Return(OptionDecl(<<"-","-">> \o p.name, NoText,
                                             FALSE, click_typ, NoText,
                                             default_expr.val, show_default,
                                             "Optional parameter: "))

OutputJsonName ==
  <<"o","u","t","p","u","t","_","j","s","o","n">>

SimulateName ==
  <<"s","i","m","u","l","a","t","e">>

\* The built-in --json option both surfaces append after the user options
JsonOption(help) ==
  OptionDecl(<<"-","-","j","s","o","n">>, OutputJsonName, TRUE, NoText,
             NoText, NoText, NoText, help)

\* The --simulate option of the script surface
SimulateOption ==
  OptionDecl(<<"-","-">> \o SimulateName, NoText, TRUE, NoText, NoText,
             NoText, NoText,
             "Return stub data instead of making a network call.")

\* One argument of the command function: its name and its annotation
Arg(name, annotation) ==
  [name |-> name, annotation |-> annotation]

\* A rendered text (or the content of a file that was there before)
Content(artifact, name, options, signature, query, simulate) ==
  [artifact |-> artifact, name |-> name, options |-> options,
   signature |-> signature, query |-> query, simulate |-> simulate]

\* generate_cli_content that walks the parameters last to first
generate_cli_content_reversed(name, params) ==
  LET ps == [ i \in DOMAIN params |-> params[Len(params) + 1 - i] ]
  IN IF \E i \in DOMAIN ps : ~cli_option(ps[i]).ok
       THEN Raise("ValueError")
       ELSE Return(Content(
              "cli", name,
              [ i \in DOMAIN ps |-> cli_option(ps[i]).val ]
                \o << JsonOption("Emit pure JSON on stdout (no logs). Human-readable output otherwise.") >>,
              [ i \in DOMAIN ps |->
                  Arg(ps[i].name,
                      IF ps[i].type = BOOL THEN BOOL
                      ELSE click_type(ps[i].type)) ]
                \o << Arg(OutputJsonName, BOOL) >>,
              [ i \in DOMAIN ps |-> ps[i].name ],
              FALSE))

generate_cli_content(name, params) ==
  IF \E i \in DOMAIN params : ~cli_option(params[i]).ok
    THEN Raise("ValueError")
    ELSE Return(Content(
           "cli", name,
           [ i \in DOMAIN params |-> cli_option(params[i]).val ]
             \o << JsonOption("Emit pure JSON on stdout (no logs). Human-readable output otherwise.") >>,
           [ i \in DOMAIN params |->
               Arg(params[i].name,
                   IF params[i].type = BOOL THEN BOOL
                   ELSE click_type(params[i].type)) ]
             \o << Arg(OutputJsonName, BOOL) >>,
           [ i \in DOMAIN params |-> params[i].name ],
           FALSE))

generate_script_content(name, params, include_simulate) ==
  IF \E i \in DOMAIN params : ~script_option(params[i]).ok
    THEN Raise("ValueError")
    ELSE Return(Content(
           "script", name,
           [ i \in DOMAIN params |-> script_option(params[i]).val ]
             \o << JsonOption("Emit strict JSON on stdout (no logs). Human-readable output otherwise.") >>
             \o (IF include_simulate THEN << SimulateOption >> ELSE << >>),
           [ i \in DOMAIN params |->
               Arg(params[i].name,
                   IF params[i].type = BOOL THEN BOOL ELSE NoText) ]
             \o << Arg(OutputJsonName, NoText) >>
             \o (IF include_simulate THEN << Arg(SimulateName, NoText) >>
                 ELSE << >>),
           [ i \in DOMAIN params |-> params[i].name ],
           include_simulate))

generate_test_plan_content ==
  Content("test_plan", NoText, << >>, << >>, << >>, FALSE)

generate_generator_usage_content ==
  Content("usage", NoText, << >>, << >>, << >>, FALSE)

\* ------------------------------------------------------------------------
\* The lines of the generated command body that depend on the request
\* ------------------------------------------------------------------------

\* f"{p.name}={{{{ {p.name} }}}}" for each parameter, joined with ", "
RECURSIVE ParamPieces(_, _)
ParamPieces(params, n) ==
  IF n = 0 THEN << >>
  ELSE (IF n = 1 THEN << >> ELSE ParamPieces(params, n - 1) \o <<","," ">>)
       \o params[n].name \o <<"=","{","{"," ">> \o params[n].name
       \o <<" ","}","}">>

\* human_lines[2]: the f-string literal the subcommand passes to its third
\* click.echo
cli_params_line(params) ==
  IF params # << >>
    THEN <<"f","\"","P","a","r","a","m","s",":"," ">> \o <<"{">>
         \o ParamPieces(params, Len(params)) \o <<"}","\"">>
    ELSE <<"f","\"","N","o"," ","p","a","r","a","m","e","t","e","r","s","\"">>

\* The position of the first character of s at or after i that is no space
RECURSIVE SkipSpaces(_, _)
SkipSpaces(s, i) ==
  IF i <= Len(s) /\ s[i] = " " THEN SkipSpaces(s, i + 1) ELSE i

\* Python's reading of an f-string literal from position i on, for literals
\* whose replacement fields hold names: "none", or the error of the compiler.
\* Outside a field {{ and }} are braces of the text and { opens a field; in
\* a field, = after the expression has to be followed by !, : or }.
RECURSIVE FStringError(_, _, _)
FStringError(s, i, in_field) ==
  IF i > Len(s) THEN "SyntaxError"
  ELSE IF ~in_field
    THEN IF s[i] = "\"" THEN "none"
         ELSE IF s[i] \in {"{", "}"}
           THEN IF i < Len(s) /\ s[i + 1] = s[i]
                  THEN FStringError(s, i + 2, FALSE)
                  ELSE IF s[i] = "{" THEN FStringError(s, i + 1, TRUE)
                  ELSE "SyntaxError"
           ELSE FStringError(s, i + 1, FALSE)
    ELSE IF s[i] = "}" THEN FStringError(s, i + 1, FALSE)
         ELSE IF s[i] = "\"" THEN "SyntaxError"
         ELSE IF s[i] = "="
           THEN LET j == SkipSpaces(s, i + 1)
                IN IF j <= Len(s) /\ s[j] \in {"}", "!", ":"}
                     THEN FStringError(s, j, TRUE)
                     ELSE "SyntaxError"
           ELSE FStringError(s, i + 1, TRUE)

\* One line of a block of statements: the column it starts at, whether it
\* ends with a colon, and whether it continues a bracket opened above
Stmt(col, opens, inside) ==
  [col |-> col, opens |-> opens, inside |-> inside]

\* textwrap.dedent: the common margin is taken off every line
Dedent(lines) ==
  LET margin == CHOOSE m \in { lines[i].col : i \in DOMAIN lines } :
                  \A i \in DOMAIN lines : m <= lines[i].col
  IN [ i \in DOMAIN lines |-> [lines[i] EXCEPT !.col = @ - margin] ]

\* indent(params_blob, 24 spaces) inside the stub: the entries are joined
\* with a newline and 20 spaces, then every line gets 24 more
params_blob_lines(params) ==
  [ i \in DOMAIN params |-> Stmt(IF i = 1 THEN 24 ELSE 44, FALSE, TRUE) ]

\* simulate_stub: with --simulate the dedented and stripped if/else block,
\* without it the with statement written with its own indentation
simulate_stub(params, include_simulate) ==
  IF include_simulate
    THEN Dedent(<< Stmt(12, TRUE, FALSE), Stmt(16, FALSE, FALSE) >>
                \o params_blob_lines(params)
                \o << Stmt(12, TRUE, FALSE), Stmt(16, TRUE, FALSE),
                      Stmt(20, FALSE, FALSE) >>)
    ELSE << Stmt(0, TRUE, FALSE), Stmt(12, FALSE, FALSE) >>

\* The try block of the script surface: the template puts 8 spaces before
\* {simulate_stub}, so before the first line of the stub only
script_try_block(params, include_simulate) ==
  LET stub == simulate_stub(params, include_simulate)
  IN << Stmt(4, TRUE, FALSE) >>
     \o << [stub[1] EXCEPT !.col = @ + 8] >> \o Tail(stub)
     \o << Stmt(8, TRUE, FALSE), Stmt(12, FALSE, FALSE),
           Stmt(8, TRUE, FALSE), Stmt(12, FALSE, FALSE),
           Stmt(8, FALSE, FALSE) >>

\* Python's indentation rule on the lines from i on, given the columns of
\* the enclosing blocks and whether the line before ended with a colon:
\* TRUE when the compiler raises IndentationError
RECURSIVE BadIndentation(_, _, _, _)
BadIndentation(lines, i, levels, opened) ==
  IF i > Len(lines) THEN opened
  ELSE IF lines[i].inside THEN BadIndentation(lines, i + 1, levels, opened)
  ELSE LET col == lines[i].col
           top == levels[Len(levels)]
       IN IF opened
            THEN col <= top
                 \/ BadIndentation(lines, i + 1, Append(levels, col),
                                   lines[i].opens)
            ELSE IF col > top THEN TRUE
            ELSE IF \A k \in DOMAIN levels : levels[k] # col THEN TRUE
            ELSE LET k == CHOOSE k \in DOMAIN levels : levels[k] = col
                 IN BadIndentation(lines, i + 1, SubSeq(levels, 1, k),
                                   lines[i].opens)

\* ------------------------------------------------------------------------
\* The comments and docstrings of the two templates
\* ------------------------------------------------------------------------

\* One stretch of a template: a shebang line, a comment line, a docstring
\* line, a blank line or a run of code lines; heading is the word before the
\* colon of a line that is a heading ("Conventions:"), else ""
TextLine(kind, heading) ==
  [kind |-> kind, heading |-> heading]

\* The template of generate_cli_content: the shebang, the imports and the
\* constants, the docstring of the group, the command with its docstring,
\* and the body with its one comment
cli_text_lines ==
  << TextLine("shebang", ""), TextLine("code", ""),
     TextLine("docstring", ""), TextLine("docstring", ""),
     TextLine("code", ""),
     TextLine("docstring", ""), TextLine("docstring", "Conventions"),
     TextLine("docstring", ""), TextLine("docstring", ""),
     TextLine("docstring", ""), TextLine("docstring", ""),
     TextLine("code", ""), TextLine("comment", ""), TextLine("code", "") >>

\* The template of generate_script_content: the shebang, the dependency
\* block, the module docstring, the client class, format_human and main
script_text_lines ==
  << TextLine("shebang", ""),
     TextLine("comment", ""), TextLine("comment", "dependencies"),
     TextLine("comment", ""), TextLine("comment", ""),
     TextLine("comment", ""), TextLine("comment", ""),
     TextLine("blank", ""),
     TextLine("docstring", ""), TextLine("docstring", ""),
     TextLine("blank", ""), TextLine("docstring", "Conventions"),
     TextLine("docstring", ""), TextLine("docstring", ""),
     TextLine("docstring", ""), TextLine("docstring", ""),
     TextLine("code", ""), TextLine("comment", ""), TextLine("code", ""),
     TextLine("docstring", ""), TextLine("docstring", ""),
     TextLine("code", ""), TextLine("comment", ""), TextLine("code", ""),
     TextLine("docstring", ""), TextLine("code", "") >>

\* The lines of a rendered text, by the renderer that produced it
text_lines(text) ==
  IF text.artifact = "cli" THEN cli_text_lines
  ELSE IF text.artifact = "script" THEN script_text_lines
  ELSE << >>

\* ------------------------------------------------------------------------
\* File materializer.  A path is the sequence of its components, the empty
\* path being the current directory; the filesystem maps every path of the
\* model to what is there.
\* ------------------------------------------------------------------------

Absent ==
  [kind |-> "absent", data |-> Content("none", NoText, << >>, << >>, << >>, FALSE)]

Dir ==
  [kind |-> "dir", data |-> Content("none", NoText, << >>, << >>, << >>, FALSE)]

File(content) ==
  [kind |-> "file", data |-> content]

\* Content of a file that was on disk before the generator ran
OldContent ==
  Content("old", NoText, << >>, << >>, << >>, FALSE)

\* Path.parent
Parent(path) ==
  SubSeq(path, 1, Len(path) - 1)

KindAt(f, path) ==
  IF path = << >> THEN "dir" ELSE f[path].kind

\* Path.exists()
Exists(f, path) ==
  KindAt(f, path) # "absent"

\* Path.mkdir(parents=True, exist_ok=True)
Mkdir(f, dir) ==
  IF \E k \in 1..(Len(dir) - 1) : KindAt(f, SubSeq(dir, 1, k)) = "file"
    THEN [fs |-> f, exc |-> "NotADirectoryError"]
  ELSE IF KindAt(f, dir) = "file"
    THEN [fs |-> f, exc |-> "FileExistsError"]
  ELSE [fs |-> [ n \in DOMAIN f |->
                   IF \E k \in 1..Len(dir) : n = SubSeq(dir, 1, k)
                     THEN Dir ELSE f[n] ],
        exc |-> "none"]

ensure_parent(f, path) ==
  Mkdir(f, Parent(path))

\* write_text that leaves a file that is already there as it is
WriteText_exclusive(f, path, content) ==
  IF KindAt(f, path) = "dir"
    THEN [fs |-> f, exc |-> "IsADirectoryError"]
  ELSE IF KindAt(f, Parent(path)) # "dir"
    THEN [fs |-> f, exc |-> "FileNotFoundError"]
  ELSE IF KindAt(f, path) = "file"
    THEN [fs |-> f, exc |-> "none"]
  ELSE [fs |-> [f EXCEPT ![path] = File(content)], exc |-> "none"]

\* Path.write_text(content)
WriteText(f, path, content) ==
  IF KindAt(f, path) = "dir"
    THEN [fs |-> f, exc |-> "IsADirectoryError"]
  ELSE IF KindAt(f, Parent(path)) # "dir"
    THEN [fs |-> f, exc |-> "FileNotFoundError"]
  ELSE [fs |-> [f EXCEPT ![path] = File(content)], exc |-> "none"]

\* A line printed by write_file or main
Line(text, path) ==
  [text |-> text, path |-> path]

\* write_file without the check for an existing path
write_file_unguarded(f, path, content, force, dry_run) ==
  LET made == ensure_parent(f, path)
  IN IF made.exc # "none"
       THEN [fs |-> made.fs, out |-> << >>, exc |-> made.exc]
     ELSE IF dry_run
       THEN [fs |-> made.fs,
             out |-> << Line("[DRY RUN] Would write: ", path) >>,
             exc |-> "none"]
     ELSE LET written == WriteText(made.fs, path, content)
          IN IF written.exc # "none"
               THEN [fs |-> written.fs, out |-> << >>, exc |-> written.exc]
               ELSE [fs |-> written.fs, out |-> << Line("Wrote ", path) >>,
                     exc |-> "none"]

\* write_file reporting nothing in a dry run
write_file_quiet(f, path, content, force, dry_run) ==
  IF Exists(f, path) /\ ~force
    THEN [fs |-> f, out |-> << >>, exc |-> "FileExistsError"]
    ELSE LET made == ensure_parent(f, path)
         IN IF made.exc # "none"
              THEN [fs |-> made.fs, out |-> << >>, exc |-> made.exc]
            ELSE IF dry_run
              THEN [fs |-> made.fs, out |-> << >>, exc |-> "none"]
            ELSE LET written == WriteText(made.fs, path, content)
                 IN IF written.exc # "none"
                      THEN [fs |-> written.fs, out |-> << >>,
                            exc |-> written.exc]
                      ELSE [fs |-> written.fs,
                            out |-> << Line("Wrote ", path) >>,
                            exc |-> "none"]

\* write_file: the filesystem afterwards, the lines printed and the exception
write_file(f, path, content, force, dry_run) ==
  IF Exists(f, path) /\ ~force
    THEN [fs |-> f, out |-> << >>, exc |-> "FileExistsError"]
    ELSE LET made == ensure_parent(f, path)
         IN IF made.exc # "none"
              THEN [fs |-> made.fs, out |-> << >>, exc |-> made.exc]
            ELSE IF dry_run
              THEN [fs |-> made.fs,
                    out |-> << Line("[DRY RUN] Would write: ", path) >>,
                    exc |-> "none"]
            ELSE LET written == WriteText(made.fs, path, content)
                 IN IF written.exc # "none"
                      THEN [fs |-> written.fs, out |-> << >>,
                            exc |-> written.exc]
                      ELSE [fs |-> written.fs,
                            out |-> << Line("Wrote ", path) >>,
                            exc |-> "none"]

\* ------------------------------------------------------------------------
\* The requests and the initial filesystems of the model
\* ------------------------------------------------------------------------

\* Capability names: one that normalises to the identifier my_op, and one
\* that is not an identifier after normalisation
ValidName ==
  <<"M","y"," ","O","p">>

InvalidName ==
  <<"9","!","x">>

Names ==
  {ValidName, InvalidName}

\* Path(f"./cli_{cap_name}.py")
DefaultCliPath(cap) ==
  << <<"c","l","i","_">> \o cap \o <<".","p","y">> >>

\* Path(f"./scripts/{cap_name}.py")
DefaultScriptPath(cap) ==
  << <<"s","c","r","i","p","t","s">>, cap \o <<".","p","y">> >>

\* Paths given on the command line
UserPath ==
  << <<"o","u","t">>, <<"g","e","n">>, <<"x",".","p","y">> >>

DocPath ==
  << <<"o","u","t">>, <<"p","l","a","n",".","m","d">> >>

Prefixes(path) ==
  { SubSeq(path, 1, k) : k \in 1..Len(path) }

Nodes ==
  Prefixes(DefaultCliPath(snake(ValidName)))
    \cup Prefixes(DefaultScriptPath(snake(ValidName)))
    \cup Prefixes(UserPath) \cup Prefixes(DocPath)

\* The paths that name a file in the requests (the others name directories)
LeafNodes ==
  { DefaultCliPath(snake(ValidName)), DefaultScriptPath(snake(ValidName)),
    UserPath, DocPath }

\* A filesystem is well formed when everything that exists is in a directory
WellFormed(f) ==
  \A n \in DOMAIN f : f[n].kind # "absent" => KindAt(f, Parent(n)) = "dir"

InitialFilesystems ==
  { f \in [Nodes -> {Absent, Dir, File(OldContent)}] :
      /\ WellFormed(f)
      /\ \A n \in LeafNodes \ {DocPath} : f[n].kind # "dir" }

\* --param tokens
TokQ ==
  <<"q",":","s","t","r">>

TokDupQ ==
  <<" ","Q","-",":","i","n","t",":","1">>

TokN ==
  <<"n",":","i","n","t",":","0","1","0">>

TokF ==
  <<"f",":","b","o","o","l",":","Y","e","s">>

TokR ==
  <<"r",":","f","l","o","a","t",":","2">>

TokBoolEmpty ==
  <<"f",":","b","o","o","l",":">>

TokBoolMaybe ==
  <<"f",":","b","o","o","l",":","m","a","y","b","e">>

TokIntX ==
  <<"n",":","i","n","t",":","x">>

TokFloatBad ==
  <<"r",":","f","l","o","a","t",":","1",".","5",".","2">>

TokOneField ==
  <<"q">>

TokFourFields ==
  <<"a",":","s","t","r",":","c",":","d">>

TokDate ==
  <<"x",":","d","a","t","e">>

TokBadName ==
  <<"9",":","s","t","r">>

TokLimit ==
  <<"l","i","m","i","t",":","i","n","t",":","1","0">>

TokLimitCap ==
  <<"L","i","m","i","t",":","i","n","t",":","5">>

TokQuery ==
  <<"q","u","e","r","y",":","s","t","r">>

\* The tokens of the model: well formed ones, and one malformed in each way
TokenPool ==
  { TokQ, TokDupQ, TokN, TokF, TokR, TokBoolEmpty, TokBoolMaybe, TokIntX,
    TokFloatBad, TokOneField, TokFourFields, TokDate, TokBadName,
    TokLimit, TokLimitCap, TokQuery }

\* Longest --param list of the runs that draw their tokens from TokenPool
MaxParams ==
  2

TokenLists ==
  UNION { [1..n -> TokenPool] : n \in 0..MaxParams }

\* --param lists of the runs that vary the paths and the flags
ParamLists ==
  { << >>, <<TokQ, TokN>>, <<TokF, TokR>>, <<TokBoolEmpty>>,
    <<TokQ, TokBoolMaybe>>, <<TokIntX>>, <<TokFloatBad>>, <<TokOneField>>,
    <<TokFourFields>>, <<TokDate>>, <<TokBadName>>, <<TokQ, TokDupQ>> }

\* --param lists of the runs that vary the filesystem
FileRunParamLists ==
  { << >>, <<TokQ, TokN>>, <<TokQ, TokBoolMaybe>> }

Targets ==
  {"cli", "script", "both"}

Request(names, lists, user_paths, doc_paths, simulate_flags, flags) ==
  [ name : names, target : Targets, param : lists,
    out_cli : user_paths, out_script : user_paths,
    emit_test_plan : doc_paths,
    emit_doc_snippets : user_paths,
    no_simulate : simulate_flags, force : flags, dry_run : flags ]

EmptyFilesystem ==
  [ n \in Nodes |-> Absent ]

FullFilesystem ==
  [ n \in Nodes |-> IF n \in LeafNodes THEN File(OldContent) ELSE Dir ]

\* A run: a request and the filesystem it starts from.  Three families:
\* every filesystem with few parameter lists, every kind of parameter list
\* with every flag on an empty and on a full filesystem, and every list of
\* at most MaxParams tokens written to the default paths of an empty
\* filesystem.
Runs ==
  (Request({ValidName}, FileRunParamLists, {None, Some(UserPath)},
           {None, Some(DocPath)}, {FALSE}, BOOLEAN)
     \X InitialFilesystems)
  \cup
  (Request(Names, ParamLists, {None, Some(UserPath)},
           {None, Some(DocPath)}, BOOLEAN, BOOLEAN)
     \X {EmptyFilesystem, FullFilesystem})
  \cup
  (Request({ValidName}, TokenLists, {None}, {None}, BOOLEAN, {FALSE})
     \X {EmptyFilesystem})

\* ------------------------------------------------------------------------
\* main: one generator run, step by step
\* ------------------------------------------------------------------------

VARIABLES
  args,     \* the parsed command line
  fs,       \* the filesystem
  fs0,      \* the filesystem when main was called
  pc,       \* the position of main
  params,   \* the result of parse_params
  rc,       \* the value main returned
  stdout,   \* the lines printed to standard output
  stderr,   \* the lines printed to standard error
  events,   \* the calls of the renderers and of write_file, in order
  proc,     \* the run of a generated surface, once main has written it
  previous  \* the invocation before this one, when main is called again

vars ==
  <<args, fs, fs0, pc, params, rc, stdout, stderr, events, proc, previous>>

\* main has not returned yet
Running ==
  -1

cap_name ==
  snake(args.name)

out_cli ==
  IF args.out_cli.some THEN args.out_cli.s ELSE DefaultCliPath(cap_name)

out_script ==
  IF args.out_script.some THEN args.out_script.s
  ELSE DefaultScriptPath(cap_name)

Event(op, artifact, path, exc) ==
  [op |-> op, artifact |-> artifact, path |-> path, exc |-> exc]

\* The except clauses of main
ExitCode(exc) ==
  IF exc = "FileExistsError" THEN 3 ELSE 1

ErrorLine(exc) ==
  IF exc = "FileExistsError" THEN Line("File exists: ", << >>)
  ELSE Line("Failed: ", << >>)

\* No generated surface has been started
NotStarted ==
  [ at |-> "idle", surface |-> "none", output_json |-> FALSE,
    simulate |-> FALSE, outcome |-> "none", raised |-> "none",
    done |-> << >>, out |-> << >>, err |-> << >>, code |-> Running ]

\* main has been called once only
FirstCall ==
  [ again |-> "no", rc |-> Running ]

\* main is called with one of the runs
Call(runs) ==
  /\ \E run \in runs :
       /\ args = run[1]
       /\ fs = run[2]
  /\ fs0 = fs
  /\ pc = "main"
  /\ params = << >>
  /\ rc = Running
  /\ stdout = << >>
  /\ stderr = << >>
  /\ events = << >>
  /\ proc = NotStarted
  /\ previous = FirstCall

Init ==
  Call(Runs)

\* Validate with the try block entered at the script artifact
Validate_from_script ==
  /\ pc = "main"
  /\ IF ~valid_identifier(cap_name)
       THEN /\ stderr' = Append(stderr, Line("Invalid name after normalization: ", << >>))
            /\ rc' = 2
            /\ pc' = "exit"
            /\ UNCHANGED params
       ELSE LET r == parse_params(args.param)
            IN IF ~r.ok
                 THEN /\ stderr' = Append(stderr, Line("ValueError", << >>))
                      /\ rc' = 2
                      /\ pc' = "exit"
                      /\ UNCHANGED params
                 ELSE /\ params' = r.val
                      /\ pc' = "script"
                      /\ UNCHANGED <<stderr, rc>>
  /\ UNCHANGED <<args, fs, fs0, stdout, events, proc, previous>>

\* Name check and parse_params, before the output paths are computed
Validate ==
  /\ pc = "main"
  /\ IF ~valid_identifier(cap_name)
       THEN /\ stderr' = Append(stderr, Line("Invalid name after normalization: ", << >>))
            /\ rc' = 2
            /\ pc' = "exit"
            /\ UNCHANGED params
       ELSE LET r == parse_params(args.param)
            IN IF ~r.ok
                 THEN /\ stderr' = Append(stderr, Line("ValueError", << >>))
                      /\ rc' = 2
                      /\ pc' = "exit"
                      /\ UNCHANGED params
                 ELSE /\ params' = r.val
                      /\ pc' = "cli"
                      /\ UNCHANGED <<stderr, rc>>
  /\ UNCHANGED <<args, fs, fs0, stdout, events, proc, previous>>

\* Emit with an except clause that restores the filesystem main started from
Emit_rollback(artifact, path, r, next) ==
  IF ~r.ok
    THEN /\ events' = Append(events, Event("render", artifact, path, r.exc))
         /\ stderr' = Append(stderr, ErrorLine(r.exc))
         /\ rc' = ExitCode(r.exc)
         /\ pc' = "exit"
         /\ UNCHANGED <<fs, stdout>>
    ELSE LET w == write_file(fs, path, r.val, args.force, args.dry_run)
         IN /\ events' = events
                   \o << Event("render", artifact, path, "none"),
                         Event("write_file", artifact, path, w.exc) >>
            /\ IF w.exc # "none"
                 THEN /\ fs' = fs0
                      /\ stderr' = Append(stderr, ErrorLine(w.exc))
                      /\ rc' = ExitCode(w.exc)
                      /\ pc' = "exit"
                      /\ UNCHANGED stdout
                 ELSE IF next = "exit"
                   THEN /\ fs' = w.fs
                        /\ stdout' = stdout \o w.out \o << Line("Done.", << >>) >>
                        /\ rc' = 0
                        /\ pc' = "exit"
                        /\ UNCHANGED stderr
                   ELSE /\ fs' = w.fs
                        /\ stdout' = stdout \o w.out
                        /\ pc' = next
                        /\ UNCHANGED <<stderr, rc>>

\* One artifact of the try block: r is the outcome of its renderer; when the
\* text was rendered write_file is called, and an exception of either ends
\* main in the matching except clause
Emit(artifact, path, r, next) ==
  IF ~r.ok
    THEN /\ events' = Append(events, Event("render", artifact, path, r.exc))
         /\ stderr' = Append(stderr, ErrorLine(r.exc))
         /\ rc' = ExitCode(r.exc)
         /\ pc' = "exit"
         /\ UNCHANGED <<fs, stdout>>
    ELSE LET w == write_file(fs, path, r.val, args.force, args.dry_run)
         IN /\ events' = events
                   \o << Event("render", artifact, path, "none"),
                         Event("write_file", artifact, path, w.exc) >>
            /\ fs' = w.fs
            /\ IF w.exc # "none"
                 THEN /\ stderr' = Append(stderr, ErrorLine(w.exc))
                      /\ rc' = ExitCode(w.exc)
                      /\ pc' = "exit"
                      /\ UNCHANGED stdout
                 ELSE IF next = "exit"
                   THEN /\ stdout' = stdout \o w.out \o << Line("Done.", << >>) >>
                        /\ rc' = 0
                        /\ pc' = "exit"
                        /\ UNCHANGED stderr
                   ELSE /\ stdout' = stdout \o w.out
                        /\ pc' = next
                        /\ UNCHANGED <<stderr, rc>>

\* An artifact that was not requested
Skip(next) ==
  IF next = "exit"
    THEN /\ stdout' = Append(stdout, Line("Done.", << >>))
         /\ rc' = 0
         /\ pc' = "exit"
         /\ UNCHANGED <<fs, stderr, events>>
    ELSE /\ pc' = next
         /\ UNCHANGED <<fs, stdout, stderr, rc, events>>

EmitCli ==
  /\ pc = "cli"
  /\ IF args.target \in {"cli", "both"}
       THEN Emit("cli", out_cli, generate_cli_content(cap_name, params),
                 "script")
       ELSE Skip("script")
  /\ UNCHANGED <<args, fs0, params, proc, previous>>

\* The script step without the test of the target
EmitScript_always ==
  /\ pc = "script"
  /\ Emit("script", out_script,
          generate_script_content(cap_name, params, ~args.no_simulate),
          "test_plan")
  /\ UNCHANGED <<args, fs0, params, proc, previous>>

EmitScript ==
  /\ pc = "script"
  /\ IF args.target \in {"script", "both"}
       THEN Emit("script", out_script,
                 generate_script_content(cap_name, params, ~args.no_simulate),
                 "test_plan")
       ELSE Skip("test_plan")
  /\ UNCHANGED <<args, fs0, params, proc, previous>>

EmitTestPlan ==
  /\ pc = "test_plan"
  /\ IF args.emit_test_plan.some
       THEN Emit("test_plan", args.emit_test_plan.s,
                 Return(generate_test_plan_content), "doc_snippets")
       ELSE Skip("doc_snippets")
  /\ UNCHANGED <<args, fs0, params, proc, previous>>

\* The last artifact; main prints Done. and returns 0 after it
EmitDocSnippets ==
  /\ pc = "doc_snippets"
  /\ IF args.emit_doc_snippets.some
       THEN Emit("usage", args.emit_doc_snippets.s,
                 Return(generate_generator_usage_content), "exit")
       ELSE Skip("exit")
  /\ UNCHANGED <<args, fs0, params, proc, previous>>

Next ==
  \/ Validate
  \/ EmitCli
  \/ EmitScript
  \/ EmitTestPlan
  \/ EmitDocSnippets

Spec ==
  Init /\ [][Next]_vars

\* ------------------------------------------------------------------------
\* What a run asks for, in the terms of main's try block
\* ------------------------------------------------------------------------

Steps ==
  <<"cli", "script", "test_plan", "doc_snippets">>

ArtifactOf(step) ==
  IF step = "doc_snippets" THEN "usage" ELSE step

\* The if conditions of the try block
Requested(step) ==
  IF step = "cli" THEN args.target \in {"cli", "both"}
  ELSE IF step = "script" THEN args.target \in {"script", "both"}
  ELSE IF step = "test_plan" THEN args.emit_test_plan.some
  ELSE args.emit_doc_snippets.some

\* The path each write_file call of the try block is given
PathOf(step) ==
  IF step = "cli" THEN out_cli
  ELSE IF step = "script" THEN out_script
  ELSE IF step = "test_plan" THEN args.emit_test_plan.s
  ELSE args.emit_doc_snippets.s

\* The outcome of the renderer each step calls, for a parameter list ps
RenderOf(step, ps) ==
  IF step = "cli" THEN generate_cli_content(cap_name, ps)
  ELSE IF step = "script"
    THEN generate_script_content(cap_name, ps, ~args.no_simulate)
  ELSE IF step = "test_plan" THEN Return(generate_test_plan_content)
  ELSE Return(generate_generator_usage_content)

\* The files of a filesystem and what they hold
FilesOf(f) ==
  { <<n, f[n].data>> : n \in { m \in DOMAIN f : f[m].kind = "file" } }

\* The directories of a filesystem
DirsOf(f) ==
  { n \in DOMAIN f : f[n].kind = "dir" }

\* ------------------------------------------------------------------------
\* Reading a rendered surface back: what each option declaration exposes
\* ------------------------------------------------------------------------

ClickPrefix ==
  <<"c","l","i","c","k",".">>

\* The parameter types the click package exports, by attribute name
ClickTypeAttributes ==
  { <<"I","N","T">>, <<"F","L","O","A","T">>,
    <<"S","T","R","I","N","G">>, <<"B","O","O","L">> }

ClickTypeNamed(attr) ==
  IF attr = <<"I","N","T">> THEN INT
  ELSE IF attr = <<"F","L","O","A","T">> THEN FLOAT
  ELSE IF attr = <<"S","T","R","I","N","G">> THEN STR
  ELSE BOOL

Unresolved ==
  <<"A","t","t","r","i","b","u","t","e","E","r","r","o","r">>

\* The type an option declares: bool for a flag, else what the expression
\* after type= evaluates to in the generated module
DeclaredType(opt) ==
  IF opt.is_flag THEN BOOL
  ELSE IF opt.type \in {STR, INT, FLOAT} THEN opt.type
  ELSE IF /\ Len(opt.type) > Len(ClickPrefix)
          /\ SubSeq(opt.type, 1, Len(ClickPrefix)) = ClickPrefix
          /\ SubSeq(opt.type, Len(ClickPrefix) + 1, Len(opt.type))
               \in ClickTypeAttributes
    THEN ClickTypeNamed(SubSeq(opt.type, Len(ClickPrefix) + 1, Len(opt.type)))
  ELSE Unresolved

\* (option name, declared type, required, default) of one declaration
Exposed(opt) ==
  [name |-> SubSeq(opt.flag, 3, Len(opt.flag)), type |-> DeclaredType(opt),
   required |-> (opt.required = TrueText), default |-> opt.default]

\* The tuples of the user parameters of a rendered surface, in text order
\* (the declarations before the built-in --json option)
ExposedParams(text) ==
  LET json == CHOOSE i \in DOMAIN text.options :
                text.options[i].dest = OutputJsonName
  IN [ i \in 1..(json - 1) |-> Exposed(text.options[i]) ]

\* ------------------------------------------------------------------------
\* A run of a generated surface: the file main wrote is started with python,
\* with or without --json and --simulate, and the request it makes goes one
\* of the ways in Outcomes
\* ------------------------------------------------------------------------

\* The paths that hold a text one of the surface renderers produced
SurfaceFiles ==
  { path \in Nodes :
      fs[path].kind = "file" /\ fs[path].data.artifact \in {"cli", "script"} }

\* What the interpreter raises when it compiles and imports the file main
\* rendered from params, "none" when the command body can be called: the
\* Params line of the subcommand has to be an f-string, the try block of the
\* script has to be indented, and every type= expression of a decorator has
\* to name something
LoadError(text) ==
  IF /\ text.artifact = "cli"
     /\ FStringError(cli_params_line(params), 3, FALSE) # "none"
    THEN "SyntaxError"
  ELSE IF /\ text.artifact = "script"
          /\ BadIndentation(script_try_block(params, text.simulate), 2,
                            <<4>>, TRUE)
    THEN "IndentationError"
  ELSE IF \E i \in DOMAIN text.options :
            DeclaredType(text.options[i]) = Unresolved
    THEN "AttributeError"
  ELSE "none"

\* The ways the request and the output step can go: the response body is a
\* JSON object or a JSON array, raise_for_status raises, the transport
\* raises, something else raises, or the output step itself raises
Outcomes ==
  {"object", "array", "HTTPStatusError", "RequestError", "Exception",
   "OutputError"}

\* The except clauses of the command body, in the order they are written
ExceptClauses ==
  <<"HTTPStatusError", "RequestError", "Exception">>

\* except Exception catches every exception but SystemExit
Catches_everything(clause, exc) ==
  clause = exc \/ clause = "Exception"

\* Whether an except clause catches an exception: SystemExit is no Exception
Catches(clause, exc) ==
  \/ clause = exc
  \/ clause = "Exception" /\ exc \in {"HTTPStatusError", "RequestError",
                                       "Exception", "OutputError"}

\* python <file> ...: the module is compiled and imported, click parses the
\* options and calls the command function
Load ==
  /\ pc = "exit"
  /\ rc = 0
  /\ proc.at = "idle"
  /\ \E path \in SurfaceFiles, output_json \in BOOLEAN, simulate \in BOOLEAN,
        outcome \in Outcomes :
       LET text == fs[path].data
           started == [NotStarted EXCEPT !.surface = text.artifact,
                                         !.output_json = output_json,
                                         !.simulate = simulate,
                                         !.outcome = outcome]
       IN /\ simulate => text.simulate
          /\ IF LoadError(text) # "none"
               THEN proc' = [started EXCEPT !.at = "done",
                                            !.raised = LoadError(text),
                                            !.err = << "Traceback" >>,
                                            !.code = 1]
               ELSE proc' = [started EXCEPT !.at = "try"]
  /\ UNCHANGED <<args, fs, fs0, pc, params, rc, stdout, stderr, events,
               previous>>

\* The first statements of the try block: the stub data with --simulate,
\* else the request, raise_for_status and resp.json()
Fetch ==
  /\ proc.at = "try"
  /\ IF ~proc.simulate
        /\ proc.outcome \in {"HTTPStatusError", "RequestError", "Exception"}
       THEN proc' = [proc EXCEPT !.at = "except", !.raised = proc.outcome]
       ELSE proc' = [proc EXCEPT !.at = "output",
                                 !.done = Append(@, "request")]
  /\ UNCHANGED <<args, fs, fs0, pc, params, rc, stdout, stderr, events,
               previous>>

\* What json.dumps writes for the result: the subcommand wraps the data in
\* an object, the script dumps the data as they are
ResultDocument ==
  IF proc.surface = "script" /\ ~proc.simulate /\ proc.outcome = "array"
    THEN "JSON array"
    ELSE "JSON object"

\* The output step and sys.exit(0), which raises SystemExit in the try block
Output ==
  /\ proc.at = "output"
  /\ IF proc.outcome = "OutputError"
       THEN proc' = [proc EXCEPT !.at = "except", !.raised = "OutputError"]
       ELSE proc' = [proc EXCEPT
                       !.at = "except",
                       !.raised = "SystemExit",
                       !.done = Append(@, "output"),
                       !.out = IF proc.output_json
                                 THEN Append(@, ResultDocument)
                                 ELSE Append(@, "text"),
                       !.code = 0]
  /\ UNCHANGED <<args, fs, fs0, pc, params, rc, stdout, stderr, events,
               previous>>

\* The except clauses: the first one that catches the exception writes the
\* error and calls sys.exit(1); an exception none catches leaves the command
\* (SystemExit ends the process with its code)
Handle ==
  /\ proc.at = "except"
  /\ IF \E k \in DOMAIN ExceptClauses : Catches(ExceptClauses[k], proc.raised)
       THEN proc' = [proc EXCEPT
                       !.at = "done",
                       !.out = IF proc.output_json
                                 THEN Append(@, "JSON error object") ELSE @,
                       !.err = IF proc.output_json
                                 THEN @ ELSE Append(@, "Error: "),
                       !.code = 1]
       ELSE proc' = [proc EXCEPT !.at = "done"]
  /\ UNCHANGED <<args, fs, fs0, pc, params, rc, stdout, stderr, events,
               previous>>

\* The runs whose surfaces are started: every list of at most MaxParams
\* tokens, written to the default paths of an empty filesystem
SurfaceRuns ==
  Request({ValidName}, TokenLists, {None}, {None}, BOOLEAN, {FALSE})
    \X {EmptyFilesystem}

InitSurface ==
  Call(SurfaceRuns)

NextSurface ==
  \/ Validate
  \/ EmitCli
  \/ EmitScript
  \/ EmitTestPlan
  \/ EmitDocSnippets
  \/ Load
  \/ Fetch
  \/ Output
  \/ Handle

\* main, and then a run of a surface it wrote
SpecSurface ==
  InitSurface /\ [][NextSurface]_vars

\* ------------------------------------------------------------------------
\* The surface renderers called on descriptors that did not come from
\* parse_params
\* ------------------------------------------------------------------------

\* A type name outside SUPPORTED_TYPES
DATE ==
  <<"d","a","t","e">>

\* ParamSpec values as a caller can construct them
Descriptors ==
  { ParamSpec(name, typ, ~default.some, default) :
      name \in {<<"q">>, <<"x">>, <<"n">>},
      typ \in SUPPORTED_TYPES \cup {DATE},
      default \in {None, Some(<<"1">>)} }

\* Lists of at most MaxParams descriptors with different names
DescriptorLists ==
  { ps \in UNION { [1..n -> Descriptors] : n \in 0..MaxParams } :
      \A i, j \in DOMAIN ps : i # j => ps[i].name # ps[j].name }

InitRender ==
  /\ args \in Request({ValidName}, {<< >>}, {None}, {None}, BOOLEAN, {FALSE})
  /\ fs = EmptyFilesystem
  /\ fs0 = fs
  /\ pc = "render"
  /\ params \in DescriptorLists
  /\ rc = Running
  /\ stdout = << >>
  /\ stderr = << >>
  /\ events = << >>
  /\ proc = NotStarted
  /\ previous = FirstCall

\* A call of a renderer; the text it returns is printed
Render(artifact, r) ==
  /\ events' = Append(events, Event("render", artifact, NoText, r.exc))
  /\ stdout' = IF r.ok THEN Append(stdout, r.val) ELSE stdout
  /\ pc' = "rendered"
  /\ UNCHANGED <<args, fs, fs0, params, rc, stderr, proc, previous>>

RenderCli ==
  /\ pc = "render"
  /\ Render("cli", generate_cli_content(cap_name, params))

RenderScript ==
  /\ pc = "render"
  /\ Render("script",
            generate_script_content(cap_name, params, ~args.no_simulate))

NextRender ==
  \/ RenderCli
  \/ RenderScript

SpecRender ==
  InitRender /\ [][NextRender]_vars

\* ------------------------------------------------------------------------
\* A dry run followed by the same request without --dry-run
\* ------------------------------------------------------------------------

\* The runs with --dry-run
DryRuns ==
  { run \in Runs : run[1].dry_run }

InitRerun ==
  Call(DryRuns)

\* main is called again with the same command line less --dry-run, either
\* on the filesystem the dry run left ("after") or on the one it started
\* from ("instead")
Rerun ==
  /\ pc = "exit"
  /\ args.dry_run
  /\ \E again \in {"after", "instead"} :
       /\ previous' = [again |-> again, rc |-> rc]
       /\ fs' = IF again = "after" THEN fs ELSE fs0
  /\ fs0' = fs'
  /\ args' = [args EXCEPT !.dry_run = FALSE]
  /\ pc' = "main"
  /\ params' = << >>
  /\ rc' = Running
  /\ stdout' = << >>
  /\ stderr' = << >>
  /\ events' = << >>
  /\ UNCHANGED proc

NextRerun ==
  \/ Validate
  \/ EmitCli
  \/ EmitScript
  \/ EmitTestPlan
  \/ EmitDocSnippets
  \/ Rerun

SpecRerun ==
  InitRerun /\ [][NextRerun]_vars

\* ------------------------------------------------------------------------
\* Requests whose parameters are named like the built-in options
\* ------------------------------------------------------------------------

\* --param tokens json:str, output_json:str and simulate:bool
ReservedTokens ==
  { <<"j","s","o","n",":","s","t","r">>,
    <<"o","u","t","p","u","t","_","j","s","o","n",":","s","t","r">>,
    <<"s","i","m","u","l","a","t","e",":","b","o","o","l">> }

\* Every list of at most MaxParams of these tokens and q:str, written to the
\* default paths of an empty filesystem
ReservedRuns ==
  Request({ValidName},
          UNION { [1..n -> ReservedTokens \cup {TokQ}] : n \in 0..MaxParams },
          {None}, {None}, BOOLEAN, {FALSE})
    \X {EmptyFilesystem}

InitReserved ==
  Call(ReservedRuns)

SpecReserved ==
  InitReserved /\ [][Next]_vars

\* ------------------------------------------------------------------------
\* How the claims classify a request, from the tokens themselves
\* ------------------------------------------------------------------------

FieldsOf(token) ==
  Split(token, ":")

NameOf(token) ==
  StripChars(FieldsOf(token)[1], Space)

TypeOf(token) ==
  StripChars(FieldsOf(token)[2], Space)

DefaultOf(token) ==
  StripChars(FieldsOf(token)[3], Space)

WrongFieldCount(token) ==
  Len(FieldsOf(token)) \notin {2, 3}

InvalidParamName(token) ==
  /\ ~WrongFieldCount(token)
  /\ NameOf(token) = << >> \/ ~valid_identifier(snake(NameOf(token)))

UnsupportedType(token) ==
  /\ ~WrongFieldCount(token)
  /\ TypeOf(token) \notin {STR, INT, FLOAT, BOOL}

GrammarError(token) ==
  WrongFieldCount(token) \/ InvalidParamName(token) \/ UnsupportedType(token)

DuplicateName(tokens) ==
  \E i, j \in DOMAIN tokens :
    /\ i # j
    /\ ~GrammarError(tokens[i])
    /\ ~GrammarError(tokens[j])
    /\ snake(NameOf(tokens[i])) = snake(NameOf(tokens[j]))

\* parse_params has to fail on the list
ParseError(tokens) ==
  \/ \E i \in DOMAIN tokens : GrammarError(tokens[i])
  \/ DuplicateName(tokens)

HasDefault(token) ==
  ~GrammarError(token) /\ Len(FieldsOf(token)) = 3

InvalidBoolDefault(token) ==
  /\ HasDefault(token)
  /\ TypeOf(token) = BOOL
  /\ ToLower(DefaultOf(token)) \notin TruthyTokens \cup FalsyTokens

InvalidNumericDefault(token) ==
  /\ HasDefault(token)
  /\ \/ TypeOf(token) = INT /\ ~IntText(DefaultOf(token)).ok
     \/ TypeOf(token) = FLOAT /\ ~FloatText(DefaultOf(token)).ok

InvalidDefault(tokens) ==
  \E i \in DOMAIN tokens :
    InvalidBoolDefault(tokens[i]) \/ InvalidNumericDefault(tokens[i])

NameError ==
  ~valid_identifier(snake(args.name))

\* The renderers and write_file were never called
NothingRendered ==
  events = << >>

\* ------------------------------------------------------------------------
\* Claims
\* ------------------------------------------------------------------------

\* C1: for every parameter list parse_params accepts, the tuples (option
\* name, declared type, required, default) read from the text of
\* generate_cli_content equal, in order, those read from the text of
\* generate_script_content.
C1_SurfaceParity ==
  pc # "main" =>
    LET c == generate_cli_content(cap_name, params)
        t == generate_script_content(cap_name, params, ~args.no_simulate)
    IN c.ok /\ t.ok => ExposedParams(c.val) = ExposedParams(t.val)

\* C2: a run with --dry-run never changes the filesystem: files, their
\* contents and directories stay as they were when main was called.
C2_DryRunChangesNothing ==
  args.dry_run => fs = fs0

\* C3: when a --param token is malformed (field count, name, type,
\* duplicate name, invalid boolean or numeric default), main writes no file
\* and creates no directory, whatever the other options are.
C3_MalformedWritesNothing ==
  ParseError(args.param) \/ InvalidDefault(args.param) => fs = fs0

\* C4: main returns 2 when the capability name is not an identifier after
\* normalisation and when parse_params has to fail (malformed token, invalid
\* name, unsupported type, duplicate name), before anything is rendered.
C4_GrammarErrorExitsTwo ==
  pc = "exit" /\ (NameError \/ ParseError(args.param))
    => rc = 2 /\ NothingRendered

C4_Witness ==
  /\ pc = "exit"
  /\ rc = 2
  /\ ~NameError
  /\ DuplicateName(args.param)
  /\ fs0 = FullFilesystem
  /\ args.force

\* C5: an invalid boolean default or a non-numeric default of an int or
\* float parameter is a validation error found before any rendering starts,
\* and main returns 2.
C5_InvalidDefaultExitsTwo ==
  pc = "exit" /\ ~NameError /\ ~ParseError(args.param)
              /\ InvalidDefault(args.param)
    => rc = 2 /\ NothingRendered

\* C6: with a bool parameter that has a default field, the run succeeds only
\* when the default is in the truthy/falsy vocabulary (case-insensitively);
\* any other default, the empty one included, makes it fail and write no
\* artifact.
C6_BoolDefaultVocabulary ==
  pc = "exit" /\ ~NameError /\ ~ParseError(args.param)
              /\ (\E i \in DOMAIN args.param : InvalidBoolDefault(args.param[i]))
    => rc # 0 /\ FilesOf(fs) = FilesOf(fs0)

\* The step main is at calls write_file: its artifact was requested and its
\* renderer returned a text
CallsWriteFile(step) ==
  pc = step /\ Requested(step) /\ RenderOf(step, params).ok

\* The write_file calls that returned, in order
IsWritten(e) ==
  e.op = "write_file" /\ e.exc = "none"

Written ==
  SelectSeq(events, IsWritten)

\* The artifacts of the request, in the order of the try block
RequestedOrder ==
  LET R(step) == Requested(step)
      steps == SelectSeq(Steps, R)
  IN [ i \in DOMAIN steps |-> ArtifactOf(steps[i]) ]

StepOf(artifact) ==
  IF artifact = "usage" THEN "doc_snippets" ELSE artifact

\* C7: when the path given to write_file exists and --force is not given,
\* nothing is written (the file keeps its content) and main returns 3.
C7_ExistingPathRefused ==
  [][ \A i \in DOMAIN Steps :
        CallsWriteFile(Steps[i]) /\ Exists(fs, PathOf(Steps[i])) /\ ~args.force
          => fs' = fs /\ rc' = 3 ]_vars

C7_Witness ==
  /\ pc = "exit"
  /\ rc = 3
  /\ ~args.force
  /\ events # << >>
  /\ LET e == events[Len(events)]
     IN /\ e.op = "write_file"
        /\ fs0[e.path] = File(OldContent)
        /\ fs[e.path] = File(OldContent)

\* C8: with --force and without --dry-run, when write_file returns, the path
\* holds exactly the newly rendered text, whatever was there before, and
\* every missing parent directory has been created.
C8_ForceReplaces ==
  [][ \A i \in DOMAIN Steps :
        /\ CallsWriteFile(Steps[i])
        /\ args.force
        /\ ~args.dry_run
        /\ rc' \in {Running, 0}
        => /\ fs'[PathOf(Steps[i])] = File(RenderOf(Steps[i], params).val)
           /\ \A d \in Prefixes(Parent(PathOf(Steps[i]))) : fs'[d] = Dir ]_vars

C8_Witness ==
  /\ pc = "exit"
  /\ rc = 0
  /\ args.force
  /\ ~args.dry_run
  /\ args.target = "cli"
  /\ fs0[out_cli] = File(OldContent)
  /\ fs[out_cli] = File(generate_cli_content(cap_name, params).val)
  /\ params # << >>

\* C9: the artifacts are written in the order subcommand, script, test plan,
\* usage document; one that is not requested is skipped and the others keep
\* their order, so a run that returns 0 has written exactly the requested
\* artifacts in that order.
C9_WriteOrder ==
  /\ Len(Written) <= Len(RequestedOrder)
  /\ \A i \in DOMAIN Written : Written[i].artifact = RequestedOrder[i]
  /\ rc = 0 => Len(Written) = Len(RequestedOrder)

C9_Witness ==
  /\ pc = "exit"
  /\ rc = 0
  /\ ~args.dry_run
  /\ args.target = "script"
  /\ [ i \in DOMAIN Written |-> Written[i].artifact ]
       = <<"script", "test_plan", "usage">>

\* The text of the last write_file call among the first k events that
\* returned for the path
LastWritten(path, k) ==
  LET j == CHOOSE m \in 1..k :
             /\ IsWritten(events[m]) /\ events[m].path = path
             /\ \A n \in (m + 1)..k :
                  ~(IsWritten(events[n]) /\ events[n].path = path)
  IN RenderOf(StepOf(events[j].artifact), params).val

Parsed ==
  pc # "main" /\ ~(pc = "exit" /\ rc = 2)

\* main returned 2 from the except clause around parse_params
ParseRejected ==
  pc = "exit" /\ rc = 2 /\ ~NameError

\* C11: when parse_params accepts a list of tokens it returns as many
\* descriptors as there are tokens, and the i-th descriptor is the one parsed
\* from the i-th token: its name is the normalized first field and its type
\* the second field of that token.
C11_DescriptorPerToken ==
  Parsed =>
    /\ Len(params) = Len(args.param)
    /\ \A i \in DOMAIN params :
         /\ params[i] = parse_param_token(args.param[i]).val
         /\ params[i].name = snake(NameOf(args.param[i]))
         /\ params[i].type = TypeOf(args.param[i])

\* Two different tokens were parsed into two descriptors
C11_Witness ==
  /\ Parsed
  /\ args.param = <<TokLimit, TokQuery>>
  /\ params[1].name = <<"l","i","m","i","t">>
  /\ params[2].name = <<"q","u","e","r","y">>

\* C12: a descriptor is required and has no default exactly when its token
\* has two fields, and is optional with the stripped third field as default
\* exactly when its token has three; 'limit:int:10' gives (limit, int,
\* optional, default 10) and 'query:str' gives (query, str, required).
C12_RequiredIffTwoFields ==
  Parsed =>
    \A i \in DOMAIN params :
      LET token == args.param[i]
      IN /\ params[i].required <=> Len(FieldsOf(token)) = 2
         /\ ~params[i].required <=> Len(FieldsOf(token)) = 3
         /\ params[i].required => params[i].default = None
         /\ ~params[i].required => params[i].default = Some(DefaultOf(token))
         /\ token = TokLimit =>
              params[i] = ParamSpec(<<"l","i","m","i","t">>, INT, FALSE,
                                    Some(<<"1","0">>))
         /\ token = TokQuery =>
              params[i] = ParamSpec(<<"q","u","e","r","y">>, STR, TRUE, None)

\* A required and an optional descriptor in one accepted list
C12_Witness ==
  /\ Parsed
  /\ args.param = <<TokQuery, TokLimit>>
  /\ params[1].required
  /\ ~params[2].required

\* C13: two tokens whose names are equal after normalization make the whole
\* batch fail ('Limit:int:5' with 'limit:int:10'), so the names of a returned
\* list are pairwise distinct.
C13_DistinctNames ==
  /\ Parsed =>
       \A i, j \in DOMAIN params : i # j => params[i].name # params[j].name
  /\ pc # "main" /\ ~NameError /\ DuplicateName(args.param) =>
       ParseRejected /\ params = << >> /\ events = << >>

\* The batch of the two tokens that normalize to limit was refused
C13_Witness ==
  /\ ParseRejected
  /\ args.param = <<TokLimitCap, TokLimit>>
  /\ params = << >>

\* C14: parse_param_token rejects a token with fewer than two or more than
\* three fields, with an empty or non-identifier normalized name, or with a
\* type outside str, int, float, bool; the type of a descriptor is the type
\* the token named, never a supported one put in its place.
C14_TokenRejected ==
  /\ \A i \in DOMAIN args.param :
       GrammarError(args.param[i]) <=> ~parse_param_token(args.param[i]).ok
  /\ pc # "main" /\ ~NameError
       /\ (\E i \in DOMAIN args.param : GrammarError(args.param[i])) =>
       ParseRejected /\ params = << >>
  /\ Parsed =>
       \A i \in DOMAIN params :
         /\ ~GrammarError(args.param[i])
         /\ params[i].type = TypeOf(args.param[i])
         /\ valid_identifier(params[i].name)

\* A token whose name normalizes to no identifier was refused after a
\* well formed one
C14_Witness ==
  /\ ParseRejected
  /\ args.param = <<TokQ, TokBadName>>

\* ------------------------------------------------------------------------
\* The texts of the two surfaces on disk
\* ------------------------------------------------------------------------

\* The name the i-th --param token declares
DeclaredName(i) ==
  snake(NameOf(args.param[i]))

\* C15: both surfaces keep the parameters in the order of their --param
\* tokens: the i-th option declaration, the i-th argument of the command
\* function and the i-th entry of the query mapping all belong to the i-th
\* token; no parameter is moved, whether required or optional.
C15_DeclarationOrder ==
  \A path \in SurfaceFiles :
    LET text == fs[path].data
        n == Len(args.param)
    IN /\ Len(text.query) = n
       /\ Len(text.options) >= n
       /\ Len(text.signature) >= n
       /\ \A i \in 1..n :
            /\ text.options[i].flag = <<"-","-">> \o DeclaredName(i)
            /\ text.signature[i].name = DeclaredName(i)
            /\ text.query[i] = DeclaredName(i)

\* Both surfaces were written for an optional parameter declared before a
\* required one
C15_Witness ==
  /\ pc = "exit"
  /\ rc = 0
  /\ args.param = <<TokLimit, TokQuery>>
  /\ \E p1, p2 \in SurfaceFiles :
       /\ fs[p1].data.artifact = "cli"
       /\ fs[p2].data.artifact = "script"
       /\ ~fs[p1].data.options[1].required = TrueText
       /\ fs[p1].data.options[2].required = TrueText

\* ------------------------------------------------------------------------
\* The generated command body
\* ------------------------------------------------------------------------

\* The process of the surface has ended
Ended ==
  proc.at = "done"

\* C17: in both generated surfaces a run with --json writes exactly one JSON
\* object to standard output however the command body goes: the result on
\* success, an object {"error": message} on an HTTP status error, a network
\* error or any other exception, and nothing else.
C17_OneJsonObject ==
  Ended /\ proc.output_json =>
    \/ proc.out = << "JSON object" >>
    \/ proc.out = << "JSON error object" >>

\* C18: in both generated surfaces the command body exits with 0 exactly
\* when the request and the output step completed without an exception, and
\* with 1 on an HTTP status error, a network error and any other exception;
\* the SystemExit of sys.exit(0) is not caught by the except clauses, so the
\* success path never ends with 1 or with an error written.
C18_ExitCodes ==
  Ended =>
    /\ proc.code \in {0, 1}
    /\ proc.code = 0 <=> proc.done = << "request", "output" >>
    /\ proc.raised \in {"HTTPStatusError", "RequestError", "Exception",
                        "OutputError"} => proc.code = 1
    /\ proc.raised = "SystemExit" =>
         /\ proc.code = 0
         /\ proc.out \in { << "JSON object" >>, << "JSON array" >>,
                           << "text" >> }
         /\ proc.err = << >>

\* A subcommand ended with 0 after its request and its output
C18_Witness ==
  /\ Ended
  /\ proc.surface = "cli"
  /\ proc.raised = "SystemExit"
  /\ proc.code = 0

\* ------------------------------------------------------------------------
\* What the index reads from a generated file
\* ------------------------------------------------------------------------

\* The text starts, after the shebang line, with a comment or a docstring
TopDescription(lines) ==
  LET first == IF lines # << >> /\ lines[1].kind = "shebang" THEN 2 ELSE 1
  IN /\ first <= Len(lines)
     /\ lines[first].kind \in {"comment", "docstring"}

\* The text has a line with the heading Usage
UsageLine(lines) ==
  \E i \in DOMAIN lines : lines[i].heading = "Usage"

\* C19: every text of the two surface renderers begins with a top-of-file
\* description comment or docstring and contains at least one 'Usage:' line,
\* for every request.
C19_DescriptionAndUsage ==
  \A path \in SurfaceFiles :
    /\ TopDescription(text_lines(fs[path].data))
    /\ UsageLine(text_lines(fs[path].data))

\* ------------------------------------------------------------------------
\* Descriptors with a type the renderers do not know
\* ------------------------------------------------------------------------

\* C20: when a surface renderer receives a descriptor whose type is none of
\* str, int, float, bool, rendering fails; the renderer never returns a text
\* for such a descriptor.
C20_UnsupportedTypeFails ==
  (\E i \in DOMAIN params : params[i].type \notin {STR, INT, FLOAT, BOOL}) =>
    /\ \A k \in DOMAIN events :
         events[k].op = "render" => events[k].exc # "none"
    /\ pc = "rendered" => stdout = << >>

\* ------------------------------------------------------------------------
\* A dry run and the run it announces
\* ------------------------------------------------------------------------

\* write_file returned for the artifact of a step in this invocation
WrittenNow(step) ==
  \E k \in DOMAIN events :
    IsWritten(events[k]) /\ events[k].artifact = ArtifactOf(step)

\* C21: after a dry run that returned 0, the same request without --dry-run,
\* run on the filesystem the dry run left, returns 0 too and writes every
\* requested artifact.
C21_DryRunThenRun ==
  previous.again = "after" /\ previous.rc = 0 /\ pc = "exit" =>
    /\ rc = 0
    /\ \A i \in DOMAIN Steps : Requested(Steps[i]) => WrittenNow(Steps[i])

\* C27: for every request and every initial filesystem the run with
\* --dry-run returns the exit code the run without --dry-run returns from
\* the same initial filesystem, also when two output options name one path.
C27_DryRunSameExitCode ==
  previous.again = "instead" /\ pc = "exit" => rc = previous.rc

\* ------------------------------------------------------------------------
\* The built-in options of the surfaces
\* ------------------------------------------------------------------------

SimulateFlag ==
  <<"-","-">> \o SimulateName

\* The text declares an option --simulate
DeclaresSimulate(text) ==
  \E i \in DOMAIN text.options : text.options[i].flag = SimulateFlag

\* The command function of the text takes an argument simulate
TakesSimulate(text) ==
  \E i \in DOMAIN text.signature : text.signature[i].name = SimulateName

\* C22: the script surface declares --simulate, takes a simulate argument and
\* contains the stub branch exactly when the request does not set
\* --no-simulate; the subcommand surface never declares --simulate, whatever
\* the request.
C22_SimulateToggle ==
  \A path \in SurfaceFiles :
    LET text == fs[path].data
    IN IF text.artifact = "script"
         THEN /\ DeclaresSimulate(text) <=> ~args.no_simulate
              /\ TakesSimulate(text) <=> ~args.no_simulate
              /\ text.simulate <=> ~args.no_simulate
         ELSE ~DeclaresSimulate(text)

\* C26: for every parameter list parse_params accepts, each surface declares
\* every option flag and every argument of the command function once: no
\* user parameter coincides with --json, output_json or --simulate.
C26_NoNameDeclaredTwice ==
  \A path \in SurfaceFiles :
    LET text == fs[path].data
    IN /\ \A i, j \in DOMAIN text.options :
            i # j => text.options[i].flag # text.options[j].flag
       /\ \A i, j \in DOMAIN text.signature :
            i # j => text.signature[i].name # text.signature[j].name

\* ------------------------------------------------------------------------
\* Required and optional parameters in the rendered surfaces

\* C23: a rendered surface declares the option of a parameter as required
\* exactly when its descriptor is required, and with a default exactly when
\* the descriptor is not required, for every type, bool included
C23_RequiredOrDefault ==
  (pc = "rendered" /\ stdout # << >>) =>
    \A i \in DOMAIN params :
      /\ (stdout[1].options[i].required = TrueText) <=> params[i].required
      /\ (stdout[1].options[i].default # NoText) <=> ~params[i].required

\* ------------------------------------------------------------------------
\* The report lines of main

\* The lines write_file prints, as opposed to the closing line of main
IsReport(line) ==
  line.text \in {"Wrote ", "[DRY RUN] Would write: "}

\* The steps of the try block the request asks for, in order
RequestedSteps ==
  SelectSeq(Steps, Requested)

\* C24: in a run that returns 0 the report lines on standard output are, in
\* the order of the writes, one line per requested artifact naming its path,
\* 'Wrote <path>' in a normal run and '[DRY RUN] Would write: <path>' in a
\* dry run, and there is no other report line
C24_OneReportPerArtifact ==
  rc = 0 =>
    SelectSeq(stdout, IsReport)
      = [ i \in DOMAIN RequestedSteps |->
            Line(IF args.dry_run THEN "[DRY RUN] Would write: " ELSE "Wrote ",
                 PathOf(RequestedSteps[i])) ]

\* A normal run and a dry run are told apart by the witness: a dry run of
\* three artifacts or more that returned 0
C24_Witness ==
  /\ rc = 0
  /\ args.dry_run
  /\ Len(RequestedSteps) >= 3
  /\ Len(stdout) = Len(RequestedSteps) + 1

\* ------------------------------------------------------------------------
\* Failures of a surface run without --json

\* C25: in both generated surfaces a run without --json that fails writes
\* one diagnostic with the error prefix to the error stream and nothing to
\* standard output; the human-readable summary is written to standard output
\* only when the run succeeds.
C25_HumanFailureOnStderr ==
  Ended /\ ~proc.output_json =>
    /\ proc.code # 0 => proc.out = << >> /\ proc.err = << "Error: " >>
    /\ proc.out # << >> => proc.code = 0 /\ proc.out = << "text" >>

\* ------------------------------------------------------------------------
\* What is on disk after a run that returned 0

\* C28: when a run without --dry-run returns 0, the path of each requested
\* artifact exists and holds exactly the text rendered for that artifact,
\* whatever the target, the output paths, the documentation paths and --force
C28_EveryArtifactOnDisk ==
  rc = 0 /\ ~args.dry_run =>
    \A i \in DOMAIN Steps :
      Requested(Steps[i]) =>
        fs[PathOf(Steps[i])] = File(RenderOf(Steps[i], params).val)

\* ------------------------------------------------------------------------
\* The paths of the artifacts that were not requested

\* The surfaces, whose paths main computes whether they are requested or not
SurfaceSteps ==
  {"cli", "script"}

\* write_file was called with the path
Touched(path) ==
  \E k \in DOMAIN events :
    events[k].op = "write_file" /\ events[k].path = path

\* The path is that of a requested artifact or a directory above one
OnRequestedPath(path) ==
  \E i \in DOMAIN RequestedSteps : path \in Prefixes(PathOf(RequestedSteps[i]))

\* C29 as stated: write_file is never called with the path of a surface that
\* was not requested, and what is at that path stays as it was (the
\* filesystem of the model holds the paths of the requests main accepts)
C29_UnrequestedPathUntouched ==
  \A step \in SurfaceSteps :
    ~Requested(step) /\ PathOf(step) \in Nodes =>
      ~Touched(PathOf(step)) /\ fs[PathOf(step)] = fs0[PathOf(step)]

\* C29: no artifact that was not requested is rendered or written, every
\* write_file call is given the path of the requested artifact it writes,
\* the path of a surface that was not requested is neither checked nor
\* written unless it is also the path of a requested artifact or a
\* directory above one, and main returns 3 only for a FileExistsError of
\* the write of a requested artifact
C29_OnlyRequestedArtifacts ==
  /\ \A k \in DOMAIN events :
       /\ Requested(StepOf(events[k].artifact))
       /\ events[k].path = PathOf(StepOf(events[k].artifact))
  /\ \A step \in SurfaceSteps :
       /\ ~Requested(step) => ~Touched(PathOf(step)) \/ OnRequestedPath(PathOf(step))
       /\ ~Requested(step) /\ ~OnRequestedPath(PathOf(step))
            /\ PathOf(step) \in Nodes =>
              fs[PathOf(step)] = fs0[PathOf(step)]
  /\ rc = 3 =>
       /\ events # << >>
       /\ events[Len(events)].op = "write_file"
       /\ events[Len(events)].exc = "FileExistsError"

\* --target cli returned 0 without --force although a file was at the path
\* of the script, which is still there as it was
C29_Witness ==
  /\ rc = 0
  /\ args.target = "cli"
  /\ ~args.force
  /\ ~args.dry_run
  /\ out_script # out_cli
  /\ fs0[out_script] = File(OldContent)
  /\ fs[out_script] = File(OldContent)
  /\ Touched(out_cli)

\* ------------------------------------------------------------------------
\* scripts_index.py: the scan of the scripts directory.  In this
\* specification args is the command line of scripts_index.py, fs the set
\* of entries below --root, events the entries rglob has yielded so far,
\* params the list metas of scan_scripts and stdout the list main goes on
\* with after --limit.
\* ------------------------------------------------------------------------

SUPPORTED_EXT ==
  { <<".","p","y">> }

DEFAULT_SCRIPTS_DIR_NAMES ==
  <<"scripts", "tools", "file_system_scripts">>

\* The code point of a character, which is what str comparison goes by
ord(c) ==
  IF c \in Digit THEN 48 + DigitVal(c)
  ELSE IF c \in Upper
    THEN 64 + (CHOOSE i \in DOMAIN UpperSeq : UpperSeq[i] = c)
  ELSE IF c \in Lower
    THEN 96 + (CHOOSE i \in DOMAIN LowerSeq : LowerSeq[i] = c)
  ELSE IF c = "_" THEN 95
  ELSE 46

\* a < b on str
StrLess(a, b) ==
  \E k \in 1..(Len(b)) :
    /\ k <= Len(a) + 1
    /\ SubSeq(a, 1, k - 1) = SubSeq(b, 1, k - 1)
    /\ k = Len(a) + 1 \/ ord(a[k]) < ord(b[k])

\* sub in s on str
Contains(sub, s) ==
  \E k \in 0..(Len(s) - Len(sub)) : SubSeq(s, k + 1, k + Len(sub)) = sub

\* name.rfind('.'), counted from 1 (0 when there is no dot)
RFindDot(name) ==
  IF \E i \in DOMAIN name : name[i] = "."
    THEN CHOOSE i \in DOMAIN name :
           name[i] = "." /\ \A j \in DOMAIN name : name[j] = "." => j <= i
    ELSE 0

\* PurePath.suffix: the last dot counts when it is neither the first nor
\* the last character of the name
suffix(name) ==
  LET i == RFindDot(name)
  IN IF 1 < i /\ i < Len(name) THEN SubSeq(name, i, Len(name)) ELSE << >>

\* PurePath.stem
stem(name) ==
  LET i == RFindDot(name)
  IN IF 1 < i /\ i < Len(name) THEN SubSeq(name, 1, i - 1) ELSE name

\* An entry below --root: the directories on the way to it, its name and
\* whether it is a regular file or a directory
Entry(dir, name, kind) ==
  [dir |-> dir, name |-> name, kind |-> kind]

EntryPool ==
  { Entry(<<"scripts">>, <<"b",".","p","y">>, "file"),
    Entry(<<"scripts", "sub">>, <<"A","b",".","p","y">>, "file"),
    Entry(<<"scripts", "sub">>, <<"b",".","p","y">>, "file"),
    Entry(<<"scripts">>, <<"a","b",".","P","Y">>, "file"),
    Entry(<<"scripts">>, <<"a",".","t","x","t">>, "file"),
    Entry(<<"scripts">>, <<"c",".","p","y">>, "dir"),
    Entry(<<"tools">>, <<"t","a",".","p","y">>, "file"),
    Entry(<< >>, <<"r",".","p","y">>, "file") }

\* The most entries below --root
MaxFiles ==
  3

Trees ==
  { t \in SUBSET EntryPool : Cardinality(t) <= MaxFiles }

\* The directory dname is in start
IsDir(tree, start, dname) ==
  \E e \in tree :
    \/ Len(e.dir) > Len(start)
         /\ SubSeq(e.dir, 1, Len(start) + 1) = Append(start, dname)
    \/ e.dir = start /\ e.kind = "dir" /\ e.name = <<dname>>

find_scripts_root(tree, start) ==
  IF \E k \in DOMAIN DEFAULT_SCRIPTS_DIR_NAMES :
       IsDir(tree, start, DEFAULT_SCRIPTS_DIR_NAMES[k])
    THEN LET k == CHOOSE i \in DOMAIN DEFAULT_SCRIPTS_DIR_NAMES :
                    /\ IsDir(tree, start, DEFAULT_SCRIPTS_DIR_NAMES[i])
                    /\ \A j \in 1..(i - 1) :
                         ~IsDir(tree, start, DEFAULT_SCRIPTS_DIR_NAMES[j])
         IN Append(start, DEFAULT_SCRIPTS_DIR_NAMES[k])
    ELSE start

\* scripts_root.rglob("*"): every entry below the directory, at any depth
rglob(tree, root) ==
  { e \in tree : Len(e.dir) >= Len(root) /\ SubSeq(e.dir, 1, Len(root)) = root }

\* The test of the loop body with the filter on the stem instead of the name
Selected_by_stem(path, filter_pattern) ==
  /\ path.kind = "file"
  /\ suffix(path.name) \in SUPPORTED_EXT
  /\ ~(/\ filter_pattern.some
       /\ filter_pattern.s # << >>
       /\ ~Contains(ToLower(filter_pattern.s), ToLower(stem(path.name))))

\* The tests of the loop body: whether the path gets an entry in metas
Selected(path, filter_pattern) ==
  /\ path.kind = "file"
  /\ suffix(path.name) \in SUPPORTED_EXT
  /\ ~(/\ filter_pattern.some
       /\ filter_pattern.s # << >>
       /\ ~Contains(ToLower(filter_pattern.s), ToLower(path.name)))

\* gather_script_metadata, as far as the name and the path go
ScriptMeta(path) ==
  [name |-> stem(path.name), path |-> path]

\* list.sort(key=lambda m: m.name), which is stable: one more item goes
\* behind the items that are not greater than it
InsertMeta(sorted, m) ==
  LET before == { i \in DOMAIN sorted : ~StrLess(m.name, sorted[i].name) }
      k == IF before = {} THEN 0
           ELSE CHOOSE i \in before : \A j \in before : j <= i
  IN SubSeq(sorted, 1, k) \o <<m>> \o SubSeq(sorted, k + 1, Len(sorted))

RECURSIVE SortByName(_)
SortByName(metas) ==
  IF metas = << >> THEN << >>
  ELSE InsertMeta(SortByName(SubSeq(metas, 1, Len(metas) - 1)),
                  metas[Len(metas)])

\* seq[:n] for n >= 0: the whole list when it has fewer than n items
SliceTo(seq, n) ==
  SubSeq(seq, 1, IF n < Len(seq) THEN n ELSE Len(seq))

\* --filter and --limit of the command lines
Filters ==
  { None, Some(<< >>), Some(<<"b">>), Some(<<"A">>), Some(<<"p","y">>) }

\* --limit is an int when it is given
Limit(n) ==
  [some |-> TRUE, s |-> n]

NoLimit ==
  [some |-> FALSE, s |-> 0]

Limits ==
  { NoLimit, Limit(-1), Limit(0), Limit(1), Limit(2) }

InitIndex ==
  /\ args \in [filter : Filters, limit : Limits]
  /\ fs \in Trees
  /\ fs0 = fs
  /\ pc = "rglob"
  /\ params = << >>
  /\ rc = Running
  /\ stdout = << >>
  /\ stderr = << >>
  /\ events = << >>
  /\ proc = NotStarted
  /\ previous = FirstCall

scripts_root ==
  find_scripts_root(fs, << >>)

\* One turn of the loop of scan_scripts; rglob yields the entries in the
\* order of the directory listings, which is any order
ScanPath ==
  /\ pc = "rglob"
  /\ \E path \in rglob(fs, scripts_root) \ Range(events) :
       /\ events' = Append(events, path)
       /\ params' = IF Selected(path, args.filter)
                      THEN Append(params, ScriptMeta(path)) ELSE params
  /\ UNCHANGED <<args, fs, fs0, pc, rc, stdout, stderr, proc, previous>>

\* The end of the loop: scan_scripts sorts metas and returns
ScanReturn ==
  /\ pc = "rglob"
  /\ rglob(fs, scripts_root) \subseteq Range(events)
  /\ params' = SortByName(params)
  /\ pc' = "scanned"
  /\ UNCHANGED <<args, fs, fs0, rc, stdout, stderr, events, proc, previous>>

\* main after scan_scripts: metas[: args.limit], the output and return 0
MainLimit ==
  /\ pc = "scanned"
  /\ stdout' = IF args.limit.some /\ args.limit.s >= 0
                 THEN SliceTo(params, args.limit.s) ELSE params
  /\ rc' = 0
  /\ pc' = "exit"
  /\ UNCHANGED <<args, fs, fs0, params, stderr, events, proc, previous>>

NextIndex ==
  \/ ScanPath
  \/ ScanReturn
  \/ MainLimit

SpecIndex ==
  InitIndex /\ [][NextIndex]_vars

\* The entries the scan is to report: the regular files below the scripts
\* root whose name ends in .py and contains the filter, whatever the case
Expected ==
  { e \in fs :
      /\ e.kind = "file"
      /\ Len(e.dir) >= Len(scripts_root)
      /\ SubSeq(e.dir, 1, Len(scripts_root)) = scripts_root
      /\ Len(e.name) > 3
      /\ SubSeq(e.name, Len(e.name) - 2, Len(e.name)) = <<".","p","y">>
      /\ args.filter.some => Contains(ToLower(args.filter.s), ToLower(e.name)) }

============================================================================
